---- MODULE Spec2Model ----
(***************************************************************************)
(* A model of src/invoice_extractor_app.py: the extraction pipeline        *)
(* (header location, metadata extraction, column normalisation, row        *)
(* cleaning, sheet and file aggregation) and the batch loop of main.       *)
(*                                                                         *)
(* Text is modelled by TLA+ strings, character by character: a cell, a     *)
(* header or a captured value is a string, and the Python string           *)
(* operations the code uses (strip, lower, join, in, startswith,           *)
(* re.search) are operators that compute on the characters.  The only      *)
(* whitespace character of the model is the space, and lower() acts on     *)
(* the ASCII letters.  Python's None is the empty tuple and a string s     *)
(* held by an optional variable is <<s>>.  Row and column indices keep     *)
(* Python's zero-based values; a TLA+ sequence is read at index + 1.       *)
(***************************************************************************)
EXTENDS Integers, Sequences, FiniteSets, TLC

VARIABLES
    pc,              \* position of the running code
    raw,             \* the sheet read with header=None, dtype=str, fillna("")
    i,               \* loop index of the row loop that is running
    header_row,      \* header_row of process_excel (None or <<index>>)
    invoice_no,      \* extract_metadata's local
    order_no,        \* extract_metadata's local
    columns,         \* items_df.columns after the strip of line 53
    ci,              \* loop index of the column loop
    col_map,         \* col_map of process_excel, a function from keys to headers
    final_cols,      \* final_cols of process_excel (None until computed)
    uploaded_files,  \* main's uploaded_files
    fi,              \* main's loop index over uploaded_files
    si,              \* process_excel's loop index over sheet_names
    all_items,       \* process_excel's all_items
    df,              \* the table process_excel returned to main
    failed,          \* whether the running process_excel went through its except
    processed_files, \* main's processed_files
    messages,        \* what main wrote to results_container
    errors           \* what process_excel reported with st.error

vars == <<pc, raw, i, header_row, invoice_no, order_no, columns, ci, col_map,
          final_cols, uploaded_files, fi, si, all_items, df, failed,
          processed_files, messages, errors>>

(***************************************************************************)
(* Python values and string operations                                     *)
(***************************************************************************)
None == <<>>

Some(v) == <<v>>

\* Python truthiness of an optional string: None and "" are falsy.
Truthy(v) == v # None /\ v[1] # ""

\* F applied to the value of e, which is computed once
Bind(e, F(_)) == CHOOSE r \in {F(x) : x \in {e}} : TRUE

Min(S) == Bind(S, LAMBDA T : CHOOSE x \in T : \A y \in T : x <= y)

Max(S) == Bind(S, LAMBDA T : CHOOSE x \in T : \A y \in T : x >= y)

UpperChars == "ABCDEFGHIJKLMNOPQRSTUVWXYZ"

LowerChars == "abcdefghijklmnopqrstuvwxyz"

DigitChars == "0123456789"

CharAt(s, p) == SubSeq(s, p, p)

\* sub in s
Contains(s, sub) ==
    \E t \in {s}, u \in {sub} :
        \E p \in 1..(Len(t) - Len(u) + 1) : SubSeq(t, p, p + Len(u) - 1) = u

\* s.startswith(prefix)
StartsWith(s, prefix) ==
    \E t \in {s}, u \in {prefix} : Len(u) <= Len(t) /\ SubSeq(t, 1, Len(u)) = u

LowerChar(c) ==
    IF \E k \in 1..Len(UpperChars) : CharAt(UpperChars, k) = c
    THEN CharAt(LowerChars, CHOOSE k \in 1..Len(UpperChars) : CharAt(UpperChars, k) = c)
    ELSE c

RECURSIVE Lower(_)
\* s.lower(), the two halves of s lower-cased in turn
Lower(s) ==
    Bind(s, LAMBDA t :
        IF Len(t) = 0 THEN ""
        ELSE IF Len(t) = 1 THEN LowerChar(t)
        ELSE Lower(SubSeq(t, 1, Len(t) \div 2))
             \o Lower(SubSeq(t, Len(t) \div 2 + 1, Len(t))))

\* s.strip()
Strip(s) ==
    Bind(s, LAMBDA t :
        Bind({p \in 1..Len(t) : CharAt(t, p) # " "}, LAMBDA keep :
            IF keep = {} THEN "" ELSE SubSeq(t, Min(keep), Max(keep))))

RECURSIVE join_from(_, _)
join_from(cells, k) ==
    IF k > Len(cells) THEN ""
    ELSE IF k = Len(cells) THEN cells[k]
    ELSE cells[k] \o " " \o join_from(cells, k + 1)

\* " ".join(cells)
Join(cells) == Bind(cells, LAMBDA c : join_from(c, 1))

\* seq[a:b] with Python's clamping of the slice to the sequence
Slice(seq, a, b) ==
    Bind(seq, LAMBDA q :
        IF a >= (IF b < Len(q) THEN b ELSE Len(q)) THEN <<>>
        ELSE SubSeq(q, a + 1, IF b < Len(q) THEN b ELSE Len(q)))

IsDigit(c) == Contains(DigitChars, c)

\* the number of consecutive digits of s from position p on
DigitsFrom(s, p) ==
    Max({k \in 0..(Len(s) - p + 1) : \A q \in p..(p + k - 1) : IsDigit(CharAt(s, q))})

\* re.search(r"\d{n,}", s): the leftmost position from which n digits follow,
\* matched greedily; None when there is none.
re_search_digits_lazy(s, n) ==
    Bind(s, LAMBDA t :
        Bind({p \in 1..Len(t) : DigitsFrom(t, p) >= n}, LAMBDA starts :
            IF starts = {} THEN None
            ELSE Some(SubSeq(t, Min(starts), Min(starts) + n - 1))))

re_search_digits(s, n) ==
    Bind(s, LAMBDA t :
        Bind({p \in 1..Len(t) : DigitsFrom(t, p) >= n}, LAMBDA starts :
            IF starts = {} THEN None
            ELSE Some(SubSeq(t, Min(starts),
                             Min(starts) + DigitsFrom(t, Min(starts)) - 1))))

(***************************************************************************)
(* extract_metadata (lines 8-26)                                           *)
(***************************************************************************)
InvoiceDigits == 6

OrderDigits == 4

LeftCells == 3

RightFrom == 4

RightTo == 7

\* line 13: every cell of the row as stripped text
row_vals(row) == Bind(row, LAMBDA cells : [k \in 1..Len(cells) |-> Strip(cells[k])])

\* line 15
left_side(row) == Lower(Join(Slice(row_vals(row), 0, LeftCells)))

\* line 16
right_side(row) == Strip(Join(Slice(row_vals(row), RightFrom, RightTo)))

\* lines 19-20 and 23-24: match.group(0) if match else right_side
capture(right, n) ==
    Bind(right, LAMBDA text :
        Bind(re_search_digits(text, n), LAMBDA match :
            IF match # None THEN match[1] ELSE text))

\* lines 18-20 (word "invoice") and 22-24 (word "order"): the field after the row
field_after(cur, row, word, n) ==
    Bind(cur, LAMBDA held :
        IF Contains(left_side(row), word) /\ ~Truthy(held)
        THEN Some(capture(right_side(row), n))
        ELSE held)

RECURSIVE metadata_loop(_, _, _, _, _)
\* the loop of lines 11-24 from row k on
metadata_loop(sheet, hr, k, inv, ord) ==
    IF k >= hr THEN <<inv, ord>>
    ELSE Bind(<<field_after(inv, sheet[k + 1], "invoice", InvoiceDigits),
                field_after(ord, sheet[k + 1], "order", OrderDigits)>>,
              LAMBDA after : metadata_loop(sheet, hr, k + 1, after[1], after[2]))

\* extract_metadata(raw, header_row): <<invoice_no, order_no>>
extract_metadata(sheet, hr) == metadata_loop(sheet, hr, 0, None, None)

(***************************************************************************)
(* Inputs of the metadata specification: rows of a header block            *)
(***************************************************************************)
MaxMetaRows == 3

StdHeader ==
    <<"No.", "Description", "Qty", "UoM", "Unit Price Excl. VAT", "VAT %",
      "Line Amount Excl. VAT">>

MetaRowSet ==
    { <<"Invoice", "", "", "", "INV", "654321", "">>,
      <<"Invoice No", "", "", "", "", "", "">>,
      <<"Order", "", "", "", "PO", "7890", "">>,
      <<"", "Invoice / Order", "", "999999", "REF", "12345", "">>,
      <<"Date", "", "", "Invoice", "2024", "", "">>,
      <<" INVOICE ", "", "", "", " INV-000123456 ", "77", "1234567">>,
      <<"Order Ref", "", "", "", "n/a", "", "">>,
      <<"Invoice", "", "", "", "12345", "678901234", "">> }

RECURSIVE SeqsUpTo(_, _)
\* the sequences of at most n elements of S
SeqsUpTo(S, n) ==
    IF n = 0 THEN {<<>>}
    ELSE SeqsUpTo(S, n - 1) \cup
         {Append(q, x) : q \in {r \in SeqsUpTo(S, n - 1) : Len(r) = n - 1}, x \in S}

\* the values the variables of the other specifications hold while one runs
IdleBatch ==
    /\ uploaded_files = <<>>
    /\ fi = 0
    /\ si = 0
    /\ all_items = <<>>
    /\ df = None
    /\ failed = FALSE
    /\ processed_files = <<>>
    /\ messages = <<>>
    /\ errors = <<>>

IdleCols ==
    /\ columns = <<>>
    /\ ci = 0
    /\ col_map = <<>>
    /\ final_cols = None

batchVars == <<uploaded_files, fi, si, all_items, df, failed, processed_files,
               messages, errors>>

colVars == <<columns, ci, col_map, final_cols>>

\* extract_metadata is entered with a sheet and the header row found in it
InitMeta ==
    /\ \E block \in SeqsUpTo(MetaRowSet, MaxMetaRows) :
          /\ raw = Append(block, StdHeader)
          /\ header_row = Some(Len(block))
    /\ pc = "meta_loop"
    /\ i = 0
    /\ invoice_no = None
    /\ order_no = None
    /\ IdleCols
    /\ IdleBatch

\* one pass of the loop body, lines 12-24
MetaStep ==
    /\ pc = "meta_loop"
    /\ i < header_row[1]
    /\ invoice_no' = field_after(invoice_no, raw[i + 1], "invoice", InvoiceDigits)
    /\ order_no' = field_after(order_no, raw[i + 1], "order", OrderDigits)
    /\ i' = i + 1
    /\ UNCHANGED <<pc, raw, header_row, colVars, batchVars>>

\* line 26
MetaReturn ==
    /\ pc = "meta_loop"
    /\ i >= header_row[1]
    /\ pc' = "meta_done"
    /\ UNCHANGED <<raw, i, header_row, invoice_no, order_no, colVars, batchVars>>

NextMeta == MetaStep \/ MetaReturn

SpecMeta == InitMeta /\ [][NextMeta]_vars

\* the rows above the header whose left side contains the word
LabelledRows(word) ==
    {k \in 0..(header_row[1] - 1) : Contains(left_side(raw[k + 1]), word)}

\* the value the first row labelled with the word captures
FirstLabelled(word, n) ==
    IF LabelledRows(word) = {} THEN None
    ELSE Some(capture(right_side(raw[Min(LabelledRows(word)) + 1]), n))

\* C1: the invoice number extract_metadata returns is the value captured from
\* the first row whose left side contains "invoice", and the order number the
\* value captured from the first row whose left side contains "order",
\* whatever later rows hold, also when that first value is the empty string.
C1_FirstCaptureWins ==
    pc = "meta_done" =>
        /\ invoice_no = FirstLabelled("invoice", InvoiceDigits)
        /\ order_no = FirstLabelled("order", OrderDigits)

\* the maximal runs of digits of s, as <<first, last>> positions
DigitRuns(s) ==
    {r \in (1..Len(s)) \X (1..Len(s)) :
        /\ r[1] <= r[2]
        /\ \A q \in r[1]..r[2] : IsDigit(CharAt(s, q))
        /\ (r[1] = 1 \/ ~IsDigit(CharAt(s, r[1] - 1)))
        /\ (r[2] = Len(s) \/ ~IsDigit(CharAt(s, r[2] + 1)))}

\* the first run of at least n digits of s, or s itself when it has none
FirstRunOrVerbatim(s, n) ==
    LET long == {r \in DigitRuns(s) : r[2] - r[1] + 1 >= n}
        first == CHOOSE r \in long : \A o \in long : r[1] <= o[1]
    IN  IF long = {} THEN s ELSE SubSeq(s, first[1], first[2])

\* the cells at positions 4 to 6 as stripped text, space-joined and trimmed
RightText(row) ==
    Strip(Join(<<Strip(row[5]), Strip(row[6]), Strip(row[7])>>))

\* C8: a row that captures a field captures the first run of at least 6
\* (invoice) or 4 (order) consecutive digits of its right side, or the whole
\* trimmed right side when it has no such run; a row labelled with both words
\* sets both fields, each by its own rule.
C8_CapturedValue ==
    [][(pc = "meta_loop" /\ i' = i + 1) =>
          /\ invoice_no' # invoice_no =>
                invoice_no' = Some(FirstRunOrVerbatim(RightText(raw[i + 1]), InvoiceDigits))
          /\ order_no' # order_no =>
                order_no' = Some(FirstRunOrVerbatim(RightText(raw[i + 1]), OrderDigits))
          /\ ( /\ invoice_no = None
               /\ order_no = None
               /\ Contains(left_side(raw[i + 1]), "invoice")
               /\ Contains(left_side(raw[i + 1]), "order") ) =>
                (invoice_no' # None /\ order_no' # None)]_vars

\* one row has set both fields: the invoice number verbatim, for lack of a run
\* of 6 digits, and the order number to a run of 4 or more digits
C8_Witness ==
    /\ pc = "meta_loop"
    /\ i = 1
    /\ Contains(left_side(raw[1]), "invoice")
    /\ Contains(left_side(raw[1]), "order")
    /\ invoice_no = Some(right_side(raw[1]))
    /\ order_no = Some("12345")

(***************************************************************************)
(* The header row search of process_excel (lines 38-46)                    *)
(***************************************************************************)
\* line 41 with the cells joined with no separator
row_text_abutted(row) ==
    Bind(SelectSeq(row, LAMBDA x : Strip(x) # ""), LAMBDA cells :
        LET glue[k \in 0..Len(cells)] == IF k = 0 THEN "" ELSE glue[k - 1] \o cells[k]
        IN  glue[Len(cells)])

\* line 41: " ".join([str(x) for x in row if str(x).strip()])
row_text(row) == Join(SelectSeq(row, LAMBDA x : Strip(x) # ""))

\* line 42
is_header(row) ==
    \E text \in {Lower(row_text(row))} :
        Contains(text, "description") /\ Contains(text, "line amount")

\* lines 41-44 with the break left out: <<pc, i, header_row>> after row k
header_step_no_break(hr, k, row) ==
    IF is_header(row) THEN <<"header_loop", k + 1, Some(k)>>
    ELSE <<"header_loop", k + 1, hr>>

\* lines 41-44 for row k: <<pc, i, header_row>> after it
header_step(hr, k, row) ==
    IF is_header(row) THEN <<"header_found", k, Some(k)>>
    ELSE <<"header_loop", k + 1, hr>>

RECURSIVE header_loop(_, _, _)
\* lines 39-44: the header_row the loop leaves, from row k on
header_loop(sheet, k, hr) ==
    IF k >= Len(sheet) THEN hr
    ELSE Bind(header_step(hr, k, sheet[k + 1]), LAMBDA after :
             IF after[1] = "header_found" THEN after[3]
             ELSE header_loop(sheet, after[2], after[3]))

(***************************************************************************)
(* Inputs of the header specification: raw sheets of four columns          *)
(***************************************************************************)
MaxRows == 3

HdrRowSet ==
    { <<"No.", "Description", "Qty", "Line Amount Excl. VAT">>,
      <<"Invoice", "", "", "654321">>,
      <<"Item descri", "ption", "Line Amount", "">>,
      <<"DESCRIPTION", "Line", "", "Amount">>,
      <<"Description", "Line ", "Amount", "">>,
      <<"Description of goods", "", "", "">>,
      <<"", " ", "", "">>,
      <<"Total line amount", "", "Description", "">>,
      <<"1", "Widget", "10", "1000">> }

InitHeader ==
    /\ raw \in SeqsUpTo(HdrRowSet, MaxRows)
    /\ pc = "header_loop"
    /\ i = 0
    /\ header_row = None
    /\ invoice_no = None
    /\ order_no = None
    /\ IdleCols
    /\ IdleBatch

\* one pass of the loop of lines 40-44
HeaderStep ==
    /\ pc = "header_loop"
    /\ i < Len(raw)
    /\ pc' = header_step(header_row, i, raw[i + 1])[1]
    /\ i' = header_step(header_row, i, raw[i + 1])[2]
    /\ header_row' = header_step(header_row, i, raw[i + 1])[3]
    /\ UNCHANGED <<raw, invoice_no, order_no, colVars, batchVars>>

\* the loop is exhausted; lines 45-46 skip the sheet when header_row is None
HeaderEnd ==
    /\ pc = "header_loop"
    /\ i >= Len(raw)
    /\ pc' = IF header_row = None THEN "header_skip" ELSE "header_found"
    /\ UNCHANGED <<raw, i, header_row, invoice_no, order_no, colVars, batchVars>>

NextHeader == HeaderStep \/ HeaderEnd

SpecHeader == InitHeader /\ [][NextHeader]_vars

HeaderSearchOver == pc \in {"header_found", "header_skip"}

\* the non-blank cells of the row, joined by single spaces and lower-cased
JoinedLower(row) ==
    Bind(SelectSeq(row, LAMBDA x : Strip(x) # ""), LAMBDA cells :
        LET text[k \in 1..Len(cells)] ==
                IF k = 1 THEN cells[1] ELSE text[k - 1] \o " " \o cells[k]
        IN  IF cells = <<>> THEN "" ELSE Lower(text[Len(cells)]))

\* the rows of raw the header locator is to accept
QualifyingRows ==
    {k \in 0..(Len(raw) - 1) :
        /\ Contains(JoinedLower(raw[k + 1]), "description")
        /\ Contains(JoinedLower(raw[k + 1]), "line amount")}

\* C7: the header locator returns the index of the first row whose non-blank
\* cells, joined by single spaces and lower-cased, contain "description" and
\* "line amount"; no row below it is chosen; when no row qualifies the result
\* is "not found" and the sheet is skipped.
C7_FirstQualifyingRow ==
    HeaderSearchOver =>
        /\ QualifyingRows # {} =>
              (pc = "header_found" /\ header_row = Some(Min(QualifyingRows)))
        /\ QualifyingRows = {} => (pc = "header_skip" /\ header_row = None)

\* the search has passed a non-qualifying row and stopped at a header row that
\* has another qualifying row below it
C7_Witness ==
    /\ pc = "header_found"
    /\ header_row = Some(1)
    /\ 2 \in QualifyingRows

\* the word appears in the row's adjacent non-blank cells taken together:
\* abutted, as "descri" and "ption" are, or joined by a space
AcrossCells(row, word) ==
    \/ Contains(Lower(row_text_abutted(row)), word)
    \/ Contains(JoinedLower(row), word)

\* C10 as stated: a row in which "description" or "line amount" appears only
\* through the concatenation of adjacent non-blank cells ("descri" followed
\* by "ption") is still detected as the header row.
C10_ConcatenationDetected ==
    HeaderSearchOver =>
        \A k \in 0..(Len(raw) - 1) :
            (AcrossCells(raw[k + 1], "description") /\ AcrossCells(raw[k + 1], "line amount"))
                => (header_row # None /\ header_row[1] <= k)

InOneCell(row, word) == \E c \in 1..Len(row) : Contains(Lower(row[c]), word)

\* C10 amended: detection is on the non-blank cells joined by single spaces.
\* A row is detected when "line amount" arises only from that join (a cell
\* ending in "line", then a cell beginning with "amount"); "description",
\* which holds no space, is detected only inside one cell, so a cell ending
\* in "descri" followed by a cell "ption" is not a header row.
C10_SpaceJoinedDetection ==
    HeaderSearchOver =>
        /\ \A k \in 0..(Len(raw) - 1) :
              ( /\ InOneCell(raw[k + 1], "description")
                /\ Contains(JoinedLower(raw[k + 1]), "line amount") )
                  => (header_row # None /\ header_row[1] <= k)
        /\ header_row # None => InOneCell(raw[header_row[1] + 1], "description")
        /\ \A k \in 0..(Len(raw) - 1) :
              ~InOneCell(raw[k + 1], "description") => header_row # Some(k)

\* the header row found holds "line amount" in no single cell
C10_Witness ==
    /\ pc = "header_found"
    /\ ~InOneCell(raw[header_row[1] + 1], "line amount")
    /\ \E k \in 0..(header_row[1] - 1) : AcrossCells(raw[k + 1], "description")

(***************************************************************************)
(* The column mapping of process_excel (lines 56-70)                       *)
(***************************************************************************)
\* line 67
needed ==
    <<"No.", "Description", "Qty", "UoM", "Unit Price Excl. VAT", "VAT %",
      "Line Amount Excl. VAT">>

\* lines 59-65 with the tests of lines 64 and 65 in the other order
canonical_line_amount_first(low) ==
    IF Contains(low, "description") THEN Some("Description")
    ELSE IF low \in {"no.", "no"} THEN Some("No.")
    ELSE IF StartsWith(low, "qty") THEN Some("Qty")
    ELSE IF Contains(low, "uom") THEN Some("UoM")
    ELSE IF Contains(low, "unit price") /\ Contains(low, "excl")
         THEN Some("Unit Price Excl. VAT")
    ELSE IF Contains(low, "line amount") /\ Contains(low, "excl")
         THEN Some("Line Amount Excl. VAT")
    ELSE IF StartsWith(low, "vat") THEN Some("VAT %")
    ELSE None

\* lines 59-65: the key the if/elif chain assigns to the lower-cased header
canonical(low) ==
    IF Contains(low, "description") THEN Some("Description")
    ELSE IF low \in {"no.", "no"} THEN Some("No.")
    ELSE IF StartsWith(low, "qty") THEN Some("Qty")
    ELSE IF Contains(low, "uom") THEN Some("UoM")
    ELSE IF Contains(low, "unit price") /\ Contains(low, "excl")
         THEN Some("Unit Price Excl. VAT")
    ELSE IF StartsWith(low, "vat") THEN Some("VAT %")
    ELSE IF Contains(low, "line amount") /\ Contains(low, "excl")
         THEN Some("Line Amount Excl. VAT")
    ELSE None

\* col_map[key] = col
dict_set(cm, key, col) ==
    [k \in DOMAIN cm \cup {key} |-> IF k = key THEN col ELSE cm[k]]

\* lines 58-65 with an entry of col_map kept once it is set
map_column_keep_first(cm, col) ==
    Bind(canonical(Lower(col)), LAMBDA key :
        IF key = None \/ key[1] \in DOMAIN cm THEN cm ELSE dict_set(cm, key[1], col))

\* lines 58-65: col_map after the column col
map_column(cm, col) ==
    Bind(canonical(Lower(col)), LAMBDA key :
        IF key = None THEN cm ELSE dict_set(cm, key[1], col))

RECURSIVE map_columns(_, _)
\* lines 56-65: col_map after the columns cols, from cm
map_columns(cm, titles) ==
    IF titles = <<>> THEN cm
    ELSE Bind(map_column(cm, Head(titles)), LAMBDA after :
             map_columns(after, Tail(titles)))

\* line 68: [col_map.get(k) for k in needed if col_map.get(k)]
final_cols_of(cm) ==
    Bind(SelectSeq(needed, LAMBDA k : k \in DOMAIN cm /\ cm[k] # ""), LAMBDA keys :
        [n \in 1..Len(keys) |-> cm[keys[n]]])

(***************************************************************************)
(* Inputs of the column specification: the column titles of a sheet        *)
(***************************************************************************)
MaxCols == 3

HeaderSet ==
    { "Description", "Description.1", "no", "Qty", "Qty UoM", "UoM",
      "Unit Price Excl. VAT", "VAT Line Amount Excl", "LINE AMOUNT (EXCL)",
      "Remarks" }

InitCols ==
    /\ columns \in SeqsUpTo(HeaderSet, MaxCols)
    /\ pc = "cols_loop"
    /\ ci = 0
    /\ col_map = <<>>
    /\ final_cols = None
    /\ raw = <<>>
    /\ i = 0
    /\ header_row = None
    /\ invoice_no = None
    /\ order_no = None
    /\ IdleBatch

rowVars == <<raw, i, header_row, invoice_no, order_no>>

\* one pass of the loop of lines 57-65
ColStep ==
    /\ pc = "cols_loop"
    /\ ci < Len(columns)
    /\ col_map' = map_column(col_map, columns[ci + 1])
    /\ ci' = ci + 1
    /\ UNCHANGED <<pc, columns, final_cols, rowVars, batchVars>>

\* lines 67-70: final_cols, and the sheet is skipped when it is empty
ColsFinish ==
    /\ pc = "cols_loop"
    /\ ci >= Len(columns)
    /\ final_cols' = Some(final_cols_of(col_map))
    /\ pc' = IF final_cols_of(col_map) = <<>> THEN "cols_skip" ELSE "cols_mapped"
    /\ UNCHANGED <<columns, ci, col_map, rowVars, batchVars>>

NextCols == ColStep \/ ColsFinish

SpecCols == InitCols /\ [][NextCols]_vars

ColsOver == pc \in {"cols_skip", "cols_mapped"}

\* the headers of the sheet that normalize to the canonical column key
HeadersOf(key) ==
    {n \in 1..Len(columns) : canonical(Lower(columns[n])) = Some(key)}

\* C3 as stated: when several headers of a sheet normalize to one canonical
\* column, the mapping holds one entry for it, the header that comes first in
\* the header row.
C3_FirstHeaderWins ==
    ColsOver =>
        \A n \in 1..Len(needed) :
            HeadersOf(needed[n]) # {} =>
                /\ needed[n] \in DOMAIN col_map
                /\ col_map[needed[n]] = columns[Min(HeadersOf(needed[n]))]

\* C3 amended: when several headers of a sheet normalize to one canonical
\* column, the mapping holds one entry for it, the header that comes last in
\* the header row: each later match replaces the earlier one.
C3_LastHeaderWins ==
    ColsOver =>
        /\ \A n \in 1..Len(needed) :
              HeadersOf(needed[n]) # {} =>
                  /\ needed[n] \in DOMAIN col_map
                  /\ col_map[needed[n]] = columns[Max(HeadersOf(needed[n]))]
        /\ \A key \in DOMAIN col_map : HeadersOf(key) # {}

\* two different headers of the sheet normalize to the same canonical column
C3_Witness ==
    /\ ColsOver
    /\ \E key \in DOMAIN col_map :
          \E a, b \in HeadersOf(key) : a < b /\ columns[a] # columns[b]

\* the rules of the column normalizer, in their fixed order
RuleHolds(r, low) ==
    CASE r = 1 -> Contains(low, "description")
      [] r = 2 -> low = "no." \/ low = "no"
      [] r = 3 -> StartsWith(low, "qty")
      [] r = 4 -> Contains(low, "uom")
      [] r = 5 -> Contains(low, "unit price") /\ Contains(low, "excl")
      [] r = 6 -> StartsWith(low, "vat")
      [] r = 7 -> Contains(low, "line amount") /\ Contains(low, "excl")

RuleKey ==
    <<"Description", "No.", "Qty", "UoM", "Unit Price Excl. VAT", "VAT %",
      "Line Amount Excl. VAT">>

RulesOf(low) == {r \in 1..Len(RuleKey) : RuleHolds(r, low)}

\* C9: a header is assigned the canonical column of the first rule, in the
\* fixed order, that its lower-cased text satisfies, and no other; a header
\* that satisfies no rule is mapped to nothing and is not among the selected
\* columns.
C9_FirstRuleOnly ==
    /\ [][(pc = "cols_loop" /\ ci' = ci + 1) =>
            LET col == columns[ci + 1]
                rules == RulesOf(Lower(col))
            IN  IF rules = {} THEN col_map' = col_map
                ELSE /\ DOMAIN col_map' = DOMAIN col_map \cup {RuleKey[Min(rules)]}
                     /\ col_map'[RuleKey[Min(rules)]] = col
                     /\ \A k \in DOMAIN col_map :
                           k # RuleKey[Min(rules)] => col_map'[k] = col_map[k]]_vars
    /\ [](ColsOver =>
            \A n \in 1..Len(columns) :
                RulesOf(Lower(columns[n])) = {} =>
                    \A m \in 1..Len(final_cols[1]) : final_cols[1][m] # columns[n])

\* a header that satisfies the rules of "VAT %" and of "Line Amount Excl. VAT"
\* has been mapped, and a header that satisfies no rule has been passed over
C9_Witness ==
    /\ ColsOver
    /\ \E n \in 1..Len(columns) : {6, 7} \subseteq RulesOf(Lower(columns[n]))
    /\ \E n \in 1..Len(columns) : RulesOf(Lower(columns[n])) = {}
    /\ "VAT %" \in DOMAIN col_map

(***************************************************************************)
(* Tables.  A DataFrame is a record of its column labels and its rows, a   *)
(* row holding one cell per column; the cell "" is a missing value (NaN).  *)
(* Column labels may repeat: line 53 strips the titles after the reader    *)
(* has made them unique, so " Qty" and "Qty" become one label, and a       *)
(* selection by label then returns every column that carries the label.    *)
(***************************************************************************)
\* pd.DataFrame()
EmptyFrame == [cols |-> <<>>, rows |-> <<>>]

\* df.empty
frame_empty(t) == t.cols = <<>> \/ t.rows = <<>>

Digit(n) == CharAt(DigitChars, n + 1)

\* line 52: the column titles read_excel takes from the header row: a blank
\* title becomes "Unnamed: <position>", a repeated title gets ".<count>"
read_titles(row) ==
    LET named == [c \in 1..Len(row) |->
                    IF row[c] = "" THEN "Unnamed: " \o Digit(c - 1) ELSE row[c]]
        before(c) == Cardinality({d \in 1..(c - 1) : named[d] = named[c]})
    IN  [c \in 1..Len(row) |->
            IF before(c) = 0 THEN named[c] ELSE named[c] \o "." \o Digit(before(c))]

\* lines 52-53: items_df, the table below the header row, its titles stripped
read_items(sheet, hr) ==
    [cols |-> [c \in 1..Len(sheet[hr + 1]) |-> Strip(read_titles(sheet[hr + 1])[c])],
     rows |-> SubSeq(sheet, hr + 2, Len(sheet))]

RECURSIVE positions_of(_, _)
\* the positions a selection by the labels takes, in the order of the labels
positions_of(cols, labels) ==
    IF labels = <<>> THEN <<>>
    ELSE SelectSeq([p \in 1..Len(cols) |-> p], LAMBDA p : cols[p] = Head(labels))
         \o positions_of(cols, Tail(labels))

\* the labels a selection does not find (KeyError)
missing_labels(cols, labels) ==
    {n \in 1..Len(labels) : \A p \in 1..Len(cols) : cols[p] # labels[n]}

\* t[labels]
select_columns(t, labels) ==
    Bind(positions_of(t.cols, labels), LAMBDA pos :
        [cols |-> [n \in 1..Len(pos) |-> t.cols[pos[n]]],
         rows |-> [r \in 1..Len(t.rows) |-> [n \in 1..Len(pos) |-> t.rows[r][pos[n]]]]])

\* line 73: rename(columns={v: k for k, v in col_map.items()})
rename_columns(t, cm) ==
    [cols |-> [n \in 1..Len(t.cols) |->
                 IF \E k \in DOMAIN cm : cm[k] = t.cols[n]
                 THEN CHOOSE k \in DOMAIN cm : cm[k] = t.cols[n]
                 ELSE t.cols[n]],
     rows |-> t.rows]

\* line 76: dropna(how="all", subset=needed), for a table that has the labels
drop_blank_rows(t) ==
    [cols |-> t.cols,
     rows |-> SelectSeq(t.rows, LAMBDA row :
                  \E p \in 1..Len(t.cols) :
                      (\E n \in 1..Len(needed) : needed[n] = t.cols[p]) /\ row[p] # "")]

\* a cell the reader takes for a number
IsNumber(cell) == cell # "" /\ \A q \in 1..Len(cell) : IsDigit(CharAt(cell, q))

\* the column at position p holds text (object dtype), so that it has .str
has_str(t, p) ==
    t.rows = <<>> \/ \E r \in 1..Len(t.rows) : t.rows[r][p] # "" /\ ~IsNumber(t.rows[r][p])

DescriptionAt(t) == {p \in 1..Len(t.cols) : t.cols[p] = "Description"}

\* line 77: the rows whose Description holds "KRA QR Code" in any case removed
drop_kra_rows(t) ==
    Bind(CHOOSE q \in DescriptionAt(t) : TRUE, LAMBDA p :
        [cols |-> t.cols,
         rows |-> SelectSeq(t.rows, LAMBDA row :
                      ~Contains(Lower(row[p]), Lower("KRA QR Code")))])

\* Python's "x if x else ''" of lines 80-81
or_empty(v) == IF Truthy(v) THEN v[1] ELSE ""

\* lines 80-82: the three tag columns inserted in front
insert_tags(t, sheet_name, inv, ord) ==
    [cols |-> <<"Sheet Name", "Invoice No", "Order No">> \o t.cols,
     rows |-> [r \in 1..Len(t.rows) |->
                 <<sheet_name, or_empty(inv), or_empty(ord)>> \o t.rows[r]]]

\* lines 36-84, the body of the sheet loop for one sheet.  kind is "skip"
\* (continue), "raise" (an exception, with its name in exc) or "table"
\* (items_clean is appended); the locals are reported as far as computed.
sheet_result(sheet) ==
    Bind(header_loop(sheet.rows, 0, None), LAMBDA hr :
    Bind([kind |-> "skip", exc |-> "", table |-> EmptyFrame, header_row |-> hr,
          invoice_no |-> None, order_no |-> None, columns |-> <<>>,
          col_map |-> <<>>, final_cols |-> None], LAMBDA base :
    IF hr = None THEN base
    ELSE
    Bind(extract_metadata(sheet.rows, hr[1]), LAMBDA meta :
    Bind(read_items(sheet.rows, hr[1]), LAMBDA items_df :
    Bind(map_columns(<<>>, items_df.cols), LAMBDA cm :
    Bind(final_cols_of(cm), LAMBDA fc :
    Bind([base EXCEPT !.invoice_no = meta[1], !.order_no = meta[2],
                      !.columns = items_df.cols, !.col_map = cm,
                      !.final_cols = Some(fc)], LAMBDA found :
    IF fc = <<>> THEN found
    ELSE
    Bind(rename_columns(select_columns(items_df, fc), cm), LAMBDA selected :
    IF missing_labels(selected.cols, needed) # {}
    THEN [found EXCEPT !.kind = "raise", !.exc = "KeyError"]
    ELSE IF Cardinality(DescriptionAt(selected)) # 1
    THEN [found EXCEPT !.kind = "raise", !.exc = "AttributeError"]
    ELSE IF ~has_str(selected, CHOOSE q \in DescriptionAt(selected) : TRUE)
    THEN [found EXCEPT !.kind = "raise", !.exc = "AttributeError"]
    ELSE [found EXCEPT
            !.kind = "table",
            !.table = insert_tags(drop_kra_rows(drop_blank_rows(selected)),
                                  sheet.name, meta[1], meta[2])]))))))))

HasRepeat(cols) == \E a, b \in 1..Len(cols) : a # b /\ cols[a] = cols[b]

\* pd.concat(items, ignore_index=True) cannot align tables whose columns
\* differ when one of them repeats a label (InvalidIndexError)
concat_raises(items) ==
    /\ \E a, b \in 1..Len(items) : items[a].cols # items[b].cols
    /\ \E a \in 1..Len(items) : HasRepeat(items[a].cols)

RECURSIVE concat_rows(_)
concat_rows(items) ==
    IF items = <<>> THEN <<>> ELSE Head(items).rows \o concat_rows(Tail(items))

\* line 86 for items that do not raise: the tables appended have equal columns
concat_frames(items) ==
    IF items = <<>> THEN EmptyFrame
    ELSE [cols |-> items[1].cols, rows |-> concat_rows(items)]

RECURSIVE sheets_loop(_, _)
\* lines 35-86 from the sheets left: [kind, exc, table], kind "raise" or "table"
sheets_loop(sheets, items) ==
    IF sheets = <<>>
    THEN IF concat_raises(items)
         THEN [kind |-> "raise", exc |-> "InvalidIndexError", table |-> EmptyFrame]
         ELSE [kind |-> "table", exc |-> "", table |-> concat_frames(items)]
    ELSE Bind(sheet_result(Head(sheets)), LAMBDA res :
             IF res.kind = "raise"
             THEN [kind |-> "raise", exc |-> res.exc, table |-> EmptyFrame]
             ELSE IF res.kind = "skip" THEN sheets_loop(Tail(sheets), items)
             ELSE Bind(Append(items, res.table), LAMBDA more :
                      sheets_loop(Tail(sheets), more)))

\* process_excel(uploaded_file), lines 28-90, as one call: the table returned
process_excel(file) ==
    IF ~file.readable THEN EmptyFrame ELSE sheets_loop(file.sheets, <<>>).table

(***************************************************************************)
(* Inputs of the batch specification: workbooks made of these sheets       *)
(***************************************************************************)
MaxFiles == 2

BlankRow == <<"", "", "", "", "", "", "">>

\* the end-to-end sheet of the specification, with a blank row in the table
SheetInvoice ==
    [name |-> "Invoice",
     rows |-> << <<"Invoice", "", "", "", "INV", "654321", "">>,
                 <<"Order", "", "", "", "PO", "7890", "">>,
                 StdHeader,
                 <<"1", "Widget", "10", "PCS", "100", "16", "1000">>,
                 BlankRow,
                 <<"2", "KRA QR Code", "", "", "", "", "">> >>]

\* the seven titles in another order, no header block
SheetShuffled ==
    [name |-> "Shuffled",
     rows |-> << <<"Description", "Line Amount Excl. VAT", "VAT %", "No.", "Qty",
                   "UoM", "Unit Price Excl. VAT">>,
                 <<"Bolt", "50", "16", "1", "5", "KG", "10">> >>]

\* no row holds both "description" and "line amount"
SheetNotes ==
    [name |-> "Notes",
     rows |-> << <<"Notes", "", "", "", "", "", "">>,
                 <<"Description of goods", "", "", "", "", "", "">> >>]

\* a header row that matches only Description and Qty
SheetPartial ==
    [name |-> "Partial",
     rows |-> << <<"Invoice", "", "", "", "", "", "">>,
                 <<"Item Description", "Qty", "Line Amount", "", "", "", "">>,
                 <<"Nut", "3", "30", "", "", "", "">> >>]

\* " Qty" and "Qty" are two titles for the reader and one label after the strip
SheetRepeated ==
    [name |-> "Repeated",
     rows |-> << <<"No.", "Description", "Qty", " Qty", "UoM", "Unit Price Excl. VAT",
                   "VAT %", "Line Amount Excl. VAT">>,
                 <<"1", "Gear", "2", "2", "PCS", "7", "16", "14">> >>]

\* every Description of the table is a number
SheetCodes ==
    [name |-> "Codes",
     rows |-> << StdHeader,
                 <<"1", "4711", "10", "PCS", "100", "16", "1000">> >>]

\* a complete header row and rows that are all cleaned away
SheetFooter ==
    [name |-> "Footer",
     rows |-> << <<"Order Ref", "", "", "", "n/a", "", "">>,
                 StdHeader,
                 <<"", "kra qr code 123abc", "", "", "", "", "">> >>]

Workbooks ==
    { [name |-> "bad", readable |-> FALSE, sheets |-> <<>>],
      [name |-> "good", readable |-> TRUE, sheets |-> <<SheetInvoice>>],
      [name |-> "two", readable |-> TRUE,
       sheets |-> <<SheetNotes, SheetShuffled, SheetInvoice>>],
      [name |-> "notes", readable |-> TRUE, sheets |-> <<SheetNotes>>],
      [name |-> "partial", readable |-> TRUE, sheets |-> <<SheetInvoice, SheetPartial>>],
      [name |-> "repeated", readable |-> TRUE, sheets |-> <<SheetRepeated>>],
      [name |-> "codes", readable |-> TRUE,
       sheets |-> <<SheetNotes, SheetShuffled, SheetCodes>>],
      [name |-> "footer", readable |-> TRUE, sheets |-> <<SheetFooter>>],
      [name |-> "mixed", readable |-> TRUE, sheets |-> <<SheetShuffled, SheetRepeated>>] }

(***************************************************************************)
(* main's batch loop (lines 141-169) around process_excel (lines 28-90)    *)
(***************************************************************************)
\* lines 150-151
cols ==
    <<"Sheet Name", "Invoice No", "Order No", "No.", "Description", "Qty", "UoM",
      "Unit Price Excl. VAT", "VAT %", "Line Amount Excl. VAT">>

Init ==
    /\ uploaded_files \in (SeqsUpTo(Workbooks, MaxFiles) \ {<<>>})
    /\ pc = "main_loop"
    /\ fi = 0
    /\ si = 0
    /\ all_items = <<>>
    /\ df = None
    /\ failed = FALSE
    /\ processed_files = <<>>
    /\ messages = <<>>
    /\ errors = <<>>
    /\ raw = <<>>
    /\ i = 0
    /\ header_row = None
    /\ invoice_no = None
    /\ order_no = None
    /\ IdleCols

\* line 30 with all_items kept from the call before
fresh_items_kept(items) == items

\* line 30: all_items = []
fresh_items(items) == <<>>

\* lines 88-90: st.error and the empty table returned
Except(exc) ==
    /\ errors' = Append(errors, exc)
    /\ df' = Some(EmptyFrame)
    /\ failed' = TRUE
    /\ pc' = "returned"

\* lines 143-146 and 30-33: main calls process_excel, which opens the workbook
Call ==
    /\ pc = "main_loop"
    /\ fi < Len(uploaded_files)
    /\ all_items' = fresh_items(all_items)
    /\ si' = 0
    /\ IF uploaded_files[fi + 1].readable
       THEN /\ pc' = "sheets"
            /\ failed' = FALSE
            /\ df' = None
            /\ UNCHANGED errors
       ELSE Except("UnreadableWorkbook")
    /\ UNCHANGED <<uploaded_files, fi, processed_files, messages, rowVars, colVars>>

\* lines 35-84: one pass of the sheet loop
Sheet ==
    /\ pc = "sheets"
    /\ si < Len(uploaded_files[fi + 1].sheets)
    /\ \E res \in {sheet_result(uploaded_files[fi + 1].sheets[si + 1])} :
           /\ raw' = uploaded_files[fi + 1].sheets[si + 1].rows
           /\ header_row' = res.header_row
           /\ invoice_no' = res.invoice_no
           /\ order_no' = res.order_no
           /\ columns' = res.columns
           /\ col_map' = res.col_map
           /\ final_cols' = res.final_cols
           /\ IF res.kind = "raise"
              THEN Except(res.exc) /\ UNCHANGED <<si, all_items>>
              ELSE /\ si' = si + 1
                   /\ all_items' = IF res.kind = "table"
                                   THEN Append(all_items, res.table)
                                   ELSE all_items
                   /\ UNCHANGED <<pc, df, failed, errors>>
    /\ UNCHANGED <<uploaded_files, fi, processed_files, messages, i, ci>>

\* line 86, and lines 88-90 when the concatenation raises
Return ==
    /\ pc = "sheets"
    /\ si >= Len(uploaded_files[fi + 1].sheets)
    /\ IF concat_raises(all_items)
       THEN Except("InvalidIndexError")
       ELSE /\ df' = Some(concat_frames(all_items))
            /\ pc' = "returned"
            /\ UNCHANGED <<failed, errors>>
    /\ UNCHANGED <<uploaded_files, fi, si, all_items, processed_files, messages,
                   rowVars, colVars>>

\* lines 148-169: main takes the table; df[cols] is a KeyError, which ends
\* main, when the table lacks one of the ten columns
Handle ==
    /\ pc = "returned"
    /\ IF frame_empty(df[1])
       THEN /\ messages' = Append(messages, [kind |-> "warning",
                                             file |-> uploaded_files[fi + 1].name])
            /\ fi' = fi + 1
            /\ pc' = "main_loop"
            /\ UNCHANGED processed_files
       ELSE IF missing_labels(df[1].cols, cols) # {}
            THEN /\ pc' = "crashed"
                 /\ UNCHANGED <<fi, processed_files, messages>>
            ELSE /\ processed_files' =
                        Append(processed_files,
                               [base_name |-> uploaded_files[fi + 1].name,
                                df |-> select_columns(df[1], cols)])
                 /\ messages' = Append(messages, [kind |-> "success",
                                                  file |-> uploaded_files[fi + 1].name])
                 /\ fi' = fi + 1
                 /\ pc' = "main_loop"
    /\ UNCHANGED <<uploaded_files, si, all_items, df, failed, errors, rowVars, colVars>>

\* the loop of line 143 is exhausted
Done ==
    /\ pc = "main_loop"
    /\ fi >= Len(uploaded_files)
    /\ pc' = "done"
    /\ UNCHANGED <<uploaded_files, fi, si, all_items, df, failed, processed_files,
                   messages, errors, rowVars, colVars>>

Next == Call \/ Sheet \/ Return \/ Handle \/ Done

Spec == Init /\ [][Next]_vars

\* the batch loop is synchronous: a step that can be taken is taken
LiveSpec == Spec /\ WF_vars(Next)

Current == uploaded_files[fi + 1]

RowsOf(t) == {t.rows[r] : r \in 1..Len(t.rows)}

\* C2: for a readable workbook the result of process_excel holds the cleaned
\* rows of every sheet that has a header row and a matched column, sheets
\* with an incomplete column mapping included: what goes wrong in one sheet
\* neither fails the workbook nor removes the rows of the other sheets.
C2_SheetAnomaliesAbsorbed ==
    (pc = "returned" /\ Current.readable) =>
        /\ ~failed
        /\ \A n \in 1..Len(Current.sheets) :
              sheet_result(Current.sheets[n]).kind = "table" =>
                  RowsOf(sheet_result(Current.sheets[n]).table) \subseteq RowsOf(df[1])

\* C4: a workbook whose processing failed does not report an empty table, the
\* result that means "no valid data" for a readable workbook without data.
C4_FailureNotEmptyTable ==
    (pc = "returned" /\ failed) => ~frame_empty(df[1])

\* C6: every non-empty table process_excel returns and every table main keeps
\* has exactly the ten columns, in the fixed order, and main's selection of
\* them never fails.
C6_TenColumns ==
    /\ (pc = "returned" /\ ~frame_empty(df[1])) => df[1].cols = cols
    /\ \A n \in 1..Len(processed_files) : processed_files[n].df.cols = cols
    /\ pc # "crashed"

\* C5: the batch reaches its end; each workbook is processed once, in upload
\* order; a workbook that fails does not stop the ones after it; and the table
\* of each workbook is the one process_excel gives for it alone.
C5_BatchCompletes ==
    /\ <>(pc = "done")
    /\ [](pc = "done" =>
            /\ fi = Len(uploaded_files)
            /\ Len(messages) = Len(uploaded_files)
            /\ \A n \in 1..Len(messages) : messages[n].file = uploaded_files[n].name)
    /\ [](pc = "returned" => df = Some(process_excel(Current)))
    /\ [](\A n \in 1..Len(processed_files) :
            \E m \in 1..Len(uploaded_files) :
                /\ uploaded_files[m].name = processed_files[n].base_name
                /\ processed_files[n].df =
                       select_columns(process_excel(uploaded_files[m]), cols))

\* a batch is over whose first workbook failed and whose second one produced
\* rows
C5_Witness ==
    /\ pc = "done"
    /\ Len(uploaded_files) = 2
    /\ errors # <<>>
    /\ messages[1].kind = "warning"
    /\ messages[2].kind = "success"
    /\ Len(processed_files) = 1

====
